---- MODULE Spec2Model ----
(***************************************************************************)
(* CV-Screening (src/app.py): a Streamlit script that extracts text from   *)
(* uploaded PDFs, asks the GROQ service for a structured record for each,  *)
(* falls back to regular-expression extraction when that fails, and builds *)
(* a PDF report from the accumulated records.                              *)
(*                                                                         *)
(* Python strings that the code searches or rewrites are sequences of      *)
(* one-character strings; Python values whose type matters are tagged      *)
(* (PyDict, PyList, PyNone).                                               *)
(***************************************************************************)
EXTENDS Integers, Sequences, FiniteSets, TLC

VARIABLES groq_api_key, uploaded_files, pc, trigger, i, cv_text,
          candidate_name, candidate_data, candidates_data, batch_src,
          requests, response, notices, widgets, status_text, pdf_buffer

vars == <<groq_api_key, uploaded_files, pc, trigger, i, cv_text,
          candidate_name, candidate_data, candidates_data, batch_src,
          requests, response, notices, widgets, status_text, pdf_buffer>>

----------------------------------------------------------------------------
(* Bounds of the model *)

MaxChunks == 3
MaxUploads == 3
MaxBatch == 3

----------------------------------------------------------------------------
(* Characters and strings *)

LowerSeq == <<"a","b","c","d","e","f","g","h","i","j","k","l","m",
              "n","o","p","q","r","s","t","u","v","w","x","y","z">>
UpperSeq == <<"A","B","C","D","E","F","G","H","I","J","K","L","M",
              "N","O","P","Q","R","S","T","U","V","W","X","Y","Z">>

Range(s) == {s[k] : k \in DOMAIN s}
Min(S) == CHOOSE m \in S : \A n \in S : m <= n

LowerSet == Range(LowerSeq)
UpperSet == Range(UpperSeq)
Letters == LowerSet \cup UpperSet
Digits == {"0","1","2","3","4","5","6","7","8","9"}

(* \w of the re module, restricted to ASCII *)
IsWord(c) == c \in Letters \cup Digits \cup {"_"}

(* \b at the place before t[p] (p = Len(t)+1 is the end of the string) *)
WordBoundary(t, p) ==
    LET before == p > 1 /\ p - 1 <= Len(t) /\ IsWord(t[p - 1])
        after == p >= 1 /\ p <= Len(t) /\ IsWord(t[p])
    IN before # after

(* the length of the longest run of characters of class C from t[p] on *)
Run(t, p, C) ==
    LET run[q \in 1..(Len(t) + 1)] ==
            IF q <= Len(t) /\ t[q] \in C THEN 1 + run[q + 1] ELSE 0
    IN IF p \in 1..(Len(t) + 1) THEN run[p] ELSE 0

----------------------------------------------------------------------------
(* create_fallback_analysis: the two patterns and re.search *)

(* [A-Za-z0-9._%+-] *)
LocalClass == Letters \cup Digits \cup {".", "_", "%", "+", "-"}
(* [A-Za-z0-9.-] *)
DomainClass == Letters \cup Digits \cup {".", "-"}
(* [A-Z|a-z] *)
TldClass == Letters \cup {"|"}
(* {2,} *)
TldMin == 2
(* [1-9] *)
LeadClass == Digits \ {"0"}
(* {7,15} *)
PhoneMin == 7
PhoneMax == 15

(* Last position of the match of email_pattern that the backtracking      *)
(* matcher finds when it starts at t[s]; 0 when there is none.  Each       *)
(* greedy quantifier first takes the longest run and gives characters     *)
(* back one at a time until the rest of the pattern matches.              *)

(* \.[A-Z|a-z]{2,}\b from t[dot] on; try[k] has k characters in the run *)
EmailTldEnd(t, dot) ==
    LET try[k \in 0..Len(t)] ==
            IF k < TldMin THEN 0
            ELSE IF WordBoundary(t, dot + k + 1) THEN dot + k
            ELSE try[k - 1]
    IN IF dot > Len(t) \/ t[dot] # "." THEN 0
       ELSE try[Run(t, dot + 1, TldClass)]

(* @[A-Za-z0-9.-]+\.[A-Z|a-z]{2,}\b from t[at] on *)
EmailDomainEnd(t, at) ==
    LET try[d \in 0..Len(t)] ==
            IF d < 1 THEN 0
            ELSE IF EmailTldEnd(t, at + d + 1) # 0
            THEN EmailTldEnd(t, at + d + 1)
            ELSE try[d - 1]
    IN IF at > Len(t) \/ t[at] # "@" THEN 0
       ELSE try[Run(t, at + 1, DomainClass)]

(* the whole pattern from t[s] on *)
EmailMatchEnd(t, s) ==
    LET try[l \in 0..Len(t)] ==
            IF l < 1 THEN 0
            ELSE IF EmailDomainEnd(t, s + l) # 0
            THEN EmailDomainEnd(t, s + l)
            ELSE try[l - 1]
    IN IF ~WordBoundary(t, s) THEN 0
       ELSE try[Run(t, s, LocalClass)]

(* Last position of the match of phone_pattern starting at t[s], or 0 *)
PhoneDigitsEnd(t, p) ==
    IF Run(t, p, Digits) < PhoneMin THEN 0
    ELSE IF Run(t, p, Digits) > PhoneMax THEN p + PhoneMax - 1
    ELSE p + Run(t, p, Digits) - 1

PhoneLeadEnd(t, p) ==
    IF p <= Len(t) /\ t[p] \in LeadClass /\ PhoneDigitsEnd(t, p + 1) # 0
    THEN PhoneDigitsEnd(t, p + 1)
    ELSE PhoneDigitsEnd(t, p)

PhoneMatchEnd(t, s) ==
    IF s <= Len(t) /\ t[s] = "+" /\ PhoneLeadEnd(t, s + 1) # 0
    THEN PhoneLeadEnd(t, s + 1)
    ELSE PhoneLeadEnd(t, s)

(* re.search(pattern, text): the pattern is tried at each position from   *)
(* the left and the first match is returned.                              *)
NoMatch == [found |-> FALSE, group |-> <<>>]

(* a search that returns the last match instead of the first *)
re_search_email_last(t) ==
    LET from[s \in 0..Len(t)] ==
            IF s < 1 THEN NoMatch
            ELSE IF EmailMatchEnd(t, s) # 0
            THEN [found |-> TRUE, group |-> SubSeq(t, s, EmailMatchEnd(t, s))]
            ELSE from[s - 1]
    IN from[Len(t)]

re_search_email(t) ==
    LET from[s \in 1..(Len(t) + 1)] ==
            IF s > Len(t) THEN NoMatch
            ELSE IF EmailMatchEnd(t, s) # 0
            THEN [found |-> TRUE, group |-> SubSeq(t, s, EmailMatchEnd(t, s))]
            ELSE from[s + 1]
    IN from[1]

re_search_phone(t) ==
    LET from[s \in 1..(Len(t) + 1)] ==
            IF s > Len(t) THEN NoMatch
            ELSE IF PhoneMatchEnd(t, s) # 0
            THEN [found |-> TRUE, group |-> SubSeq(t, s, PhoneMatchEnd(t, s))]
            ELSE from[s + 1]
    IN from[1]

Fields == {"name", "email", "phone", "location", "experience_years",
           "current_role", "industry", "education", "key_skills",
           "previous_companies", "summary"}

NotFound == <<"N","o","t"," ","f","o","u","n","d">>
NotDetermined == <<"N","o","t"," ","d","e","t","e","r","m","i","n","e","d">>

PyDict(r) == [type |-> "dict", val |-> r]
PyList(l) == [type |-> "list", val |-> l]
PyNone == [type |-> "none", val |-> <<>>]

(* an extractor without the "Not found" marker *)
create_fallback_unmarked(text, name) ==
    PyDict([name |-> name,
            email |-> re_search_email(text).group,
            phone |-> re_search_phone(text).group,
            location |-> "Not extracted",
            experience_years |-> NotDetermined,
            current_role |-> "Not extracted",
            industry |-> "Not determined",
            education |-> "Not extracted",
            key_skills |-> <<"Analysis failed - manual review required">>,
            previous_companies |-> <<"Not extracted">>,
            summary |-> "Automatic analysis failed. Manual review required."])

create_fallback_analysis(text, name) ==
    PyDict([name |-> name,
            email |-> IF re_search_email(text).found
                      THEN re_search_email(text).group ELSE NotFound,
            phone |-> IF re_search_phone(text).found
                      THEN re_search_phone(text).group ELSE NotFound,
            location |-> "Not extracted",
            experience_years |-> NotDetermined,
            current_role |-> "Not extracted",
            industry |-> "Not determined",
            education |-> "Not extracted",
            key_skills |-> <<"Analysis failed - manual review required">>,
            previous_companies |-> <<"Not extracted">>,
            summary |-> "Automatic analysis failed. Manual review required."])

----------------------------------------------------------------------------
(* analyze_cv_with_groq *)

(* cv_text[:4000]; the limit is scaled to the length of the model's texts *)
PromptLimit == 4

Take(s, n) == SubSeq(s, 1, Min({n, Len(s)}))

(* the user message of the request: the name hint and the text excerpt *)
Prompt(text, name) == [name |-> name, excerpt |-> Take(text, PromptLimit)]

(* What client.chat.completions.create does: it raises, or it returns a   *)
(* reply whose message content is None or a string; a string is JSON text *)
(* of some value, or it is not JSON.                                      *)
ApiError == [raises |-> TRUE, content |-> PyNone]
Reply(c) == [raises |-> FALSE, content |-> c]
NotJson == [type |-> "str", json |-> FALSE, val |-> PyNone]
JsonText(v) == [type |-> "str", json |-> TRUE, val |-> v]

(* json.loads: TypeError for None, JSONDecodeError for text that is not   *)
(* JSON, otherwise the decoded value whatever its type                    *)
json_loads(c) ==
    IF c.type # "str" THEN [error |-> "TypeError", val |-> PyNone]
    ELSE IF ~c.json THEN [error |-> "JSONDecodeError", val |-> PyNone]
    ELSE [error |-> "", val |-> c.val]

(* an exception that leaves the function *)
PyRaise == [type |-> "raise", val |-> <<>>]

(* an analyzer without the handler for the errors of the call *)
analyze_cv_uncaught(text, key, name, resp) ==
    IF resp.raises
    THEN PyRaise
    ELSE IF json_loads(resp.content).error # ""
    THEN create_fallback_analysis(text, name)
    ELSE json_loads(resp.content).val

(* The value returned: the decoded reply, or the fallback record when the *)
(* call or json.loads raised.  Both handlers end in the same return.      *)
analyze_cv_with_groq(text, key, name, resp) ==
    IF resp.raises
    THEN create_fallback_analysis(text, name)
    ELSE IF json_loads(resp.content).error # ""
    THEN create_fallback_analysis(text, name)
    ELSE json_loads(resp.content).val

(* the st.error notice of the handler that caught the exception *)
analyze_notice(resp) ==
    IF resp.raises THEN <<"Error analyzing CV">>
    ELSE IF json_loads(resp.content).error = "JSONDecodeError"
    THEN <<"Error parsing JSON response">>
    ELSE IF json_loads(resp.content).error # ""
    THEN <<"Error analyzing CV">>
    ELSE <<>>

(* an analyzer that sends the request a second time *)
analyze_requests_retry(text, name) == <<Prompt(text, name), Prompt(text, name)>>

(* the calls of client.chat.completions.create: one, with the prompt *)
analyze_requests(text, name) == <<Prompt(text, name)>>

----------------------------------------------------------------------------
(* The name hint: uploaded_file.name.replace('.pdf', '').replace('_', ' ') *)
(* .title()                                                                *)

IndexIn(c, s) == CHOOSE k \in DOMAIN s : s[k] = c
ToUpper(c) == IF c \in LowerSet THEN UpperSeq[IndexIn(c, LowerSeq)] ELSE c
ToLower(c) == IF c \in UpperSet THEN LowerSeq[IndexIn(c, UpperSeq)] ELSE c

StartsWithAt(s, p, old) ==
    /\ p + Len(old) - 1 <= Len(s)
    /\ SubSeq(s, p, p + Len(old) - 1) = old

RECURSIVE ReplaceFrom(_, _, _, _)
ReplaceFrom(s, p, old, new) ==
    IF p > Len(s) THEN <<>>
    ELSE IF StartsWithAt(s, p, old)
    THEN new \o ReplaceFrom(s, p + Len(old), old, new)
    ELSE <<s[p]>> \o ReplaceFrom(s, p + 1, old, new)

str_replace(s, old, new) == ReplaceFrom(s, 1, old, new)

str_title(s) ==
    [k \in 1..Len(s) |->
        IF k > 1 /\ s[k - 1] \in Letters THEN ToLower(s[k]) ELSE ToUpper(s[k])]

DotPdf == <<".","p","d","f">>

NameHint(filename) ==
    str_title(str_replace(str_replace(filename, DotPdf, <<>>), <<"_">>, <<" ">>))

----------------------------------------------------------------------------
(* Inputs of the model *)

Chunks == { <<"a","@","b",".","c","d">>, <<" ","j","d">>, <<"@","e","x">>,
            <<".","c","o">>, <<" ">>, <<"+">>,
            <<"1","2","3","4","5","6","7">>, <<"0">> }

RECURSIVE TextsUpTo(_)
TextsUpTo(n) ==
    IF n = 0 THEN {<<>>}
    ELSE LET P == TextsUpTo(n - 1)
         IN P \cup {p \o c : p \in P, c \in Chunks}

Texts == TextsUpTo(MaxChunks)

FileNames == { <<"j","_","d","o","e",".","p","d","f">>,
               <<"a","n","n",".","p","d","f">> }

(* values the service may send as JSON *)
ModelRecord ==
    [name |-> <<"J","o","e">>, email |-> <<"j","@","e",".","i","o">>,
     phone |-> NotFound, location |-> "Oslo", experience_years |-> <<"5">>,
     current_role |-> "Engineer", industry |-> "Software",
     education |-> "MSc", key_skills |-> <<"TLA+">>,
     previous_companies |-> <<"Acme">>, summary |-> "Engineer."]

PartialRecord == [name |-> <<"J","o","e">>]

Responses == { ApiError, Reply(PyNone), Reply(NotJson),
               Reply(JsonText(PyList(<<>>))),
               Reply(JsonText(PyDict(PartialRecord))),
               Reply(JsonText(PyDict(ModelRecord))) }

ApiKey == "gsk"

----------------------------------------------------------------------------
(* The analyzer on its own: every text, name hint and reply *)

InitAnalyze ==
    /\ groq_api_key = ApiKey
    /\ uploaded_files = <<>>
    /\ pc = "analyze"
    /\ trigger = "none"
    /\ i = 0
    /\ cv_text \in Texts
    /\ candidate_name \in {NameHint(f) : f \in FileNames}
    /\ candidate_data = PyNone
    /\ candidates_data = <<>>
    /\ batch_src = <<>>
    /\ requests = <<>>
    /\ response = Reply(PyNone)
    /\ notices = <<>>
    /\ widgets = {}
    /\ status_text = ""
    /\ pdf_buffer = <<>>

AnalyzeCall ==
    /\ pc = "analyze"
    /\ \E resp \in Responses :
          /\ response' = resp
          /\ candidate_data' =
                analyze_cv_with_groq(cv_text, groq_api_key, candidate_name, resp)
          /\ requests' = requests \o analyze_requests(cv_text, candidate_name)
          /\ IF candidate_data'.type = "raise"
             THEN /\ pc' = "idle"
                  /\ notices' = notices \o <<"Traceback">>
             ELSE /\ pc' = "analyzed"
                  /\ notices' = notices \o analyze_notice(resp)
    /\ UNCHANGED <<groq_api_key, uploaded_files, trigger, i, cv_text,
                   candidate_name, candidates_data, batch_src, widgets,
                   status_text, pdf_buffer>>

NextAnalyze == AnalyzeCall

SpecAnalyze == InitAnalyze /\ [][NextAnalyze]_vars

----------------------------------------------------------------------------
(* extract_text_from_pdf *)

RECURSIVE Concat(_)
Concat(pages) ==
    IF pages = <<>> THEN <<>> ELSE Head(pages) \o Concat(Tail(pages))

(* fitz.open raises on a payload that is not a PDF; the handler reports   *)
(* it and returns "".  Otherwise the page texts are joined in page order. *)
extract_text_from_pdf(file) ==
    IF ~file.readable
    THEN [text |-> <<>>, notice |-> <<"Error extracting text">>]
    ELSE [text |-> Concat(file.pages), notice |-> <<>>]

----------------------------------------------------------------------------
(* create_pdf_report: the story handed to doc.build *)

Unknown == <<"U","n","k","n","o","w","n">>
NA == <<"N","/","A">>

(* dict.get(key, default) *)
Get(c, key, default) == IF key \in DOMAIN c.val THEN c.val[key] ELSE default

(* str.isdigit *)
isdigit(v) == Len(v) > 0 /\ \A k \in 1..Len(v) : v[k] \in Digits

(* ', '.join(list) if list else 'N/A' *)
Joined(c, key) ==
    IF Get(c, key, <<>>) # <<>>
    THEN [sep |-> ", ", parts |-> Get(c, key, <<>>)]
    ELSE [sep |-> "", parts |-> <<"N/A">>]

Experience(c) ==
    IF isdigit(Get(c, "experience_years", <<>>))
    THEN Get(c, "experience_years", NA) \o <<" ","y","e","a","r","s">>
    ELSE Get(c, "experience_years", NA)

Details(c) ==
    [Name |-> Get(c, "name", NA),
     Email |-> Get(c, "email", NA),
     Phone |-> Get(c, "phone", NA),
     Location |-> Get(c, "location", "N/A"),
     Experience |-> Experience(c),
     CurrentRole |-> Get(c, "current_role", "N/A"),
     Industry |-> Get(c, "industry", "N/A"),
     Education |-> Get(c, "education", "N/A"),
     KeySkills |-> Joined(c, "key_skills"),
     PreviousCompanies |-> Joined(c, "previous_companies")]

Spacer == [kind |-> "spacer"]

(* the flowables of candidate number k *)
CandidateSection(k, c) ==
    << [kind |-> "header", pos |-> k, name |-> Get(c, "name", Unknown)],
       [kind |-> "table", details |-> Details(c)],
       Spacer,
       [kind |-> "summary",
        text |-> Get(c, "summary", "No summary available")],
       Spacer >>

RECURSIVE Sections(_, _)
Sections(batch, k) ==
    IF k > Len(batch) THEN <<>>
    ELSE CandidateSection(k, batch[k]) \o Sections(batch, k + 1)

(* a report that leaves out the records without a name *)
create_pdf_report_named(batch) ==
    << [kind |-> "title", text |-> "CV Screening Report"],
       Spacer,
       [kind |-> "statistics", total_candidates |-> Len(batch)],
       Spacer >>
    \o Sections(SelectSeq(batch, LAMBDA c : "name" \in DOMAIN c.val), 1)

create_pdf_report(batch) ==
    << [kind |-> "title", text |-> "CV Screening Report"],
       Spacer,
       [kind |-> "statistics", total_candidates |-> Len(batch)],
       Spacer >> \o Sections(batch, 1)

----------------------------------------------------------------------------
(* main: one execution of the script for each interaction of the user.    *)
(* A button returns True only in the execution that its click started.    *)

st_button(label) == trigger = label

(* a loop that does not test the text *)
Truthy_always(text) == TRUE

(* bool(cv_text) *)
Truthy(text) == text # <<>>

Files ==
    { [name |-> <<"j","_","d","o","e",".","p","d","f">>, readable |-> TRUE,
       pages |-> << <<"a","@">>, <<"b",".","c","d">> >>],
      [name |-> <<"a","n","n",".","p","d","f">>, readable |-> TRUE,
       pages |-> << <<"+","1","2","3","4","5","6","7">> >>],
      [name |-> <<"a","n","n",".","p","d","f">>, readable |-> FALSE,
       pages |-> <<>>],
      [name |-> <<"j","_","d","o","e",".","p","d","f">>, readable |-> TRUE,
       pages |-> << <<>> >>] }

Init ==
    /\ groq_api_key = ""
    /\ uploaded_files = <<>>
    /\ pc = "main"
    /\ trigger = "none"
    /\ i = 0
    /\ cv_text = <<>>
    /\ candidate_name = <<>>
    /\ candidate_data = PyNone
    /\ candidates_data = <<>>
    /\ batch_src = <<>>
    /\ requests = <<>>
    /\ response = Reply(PyNone)
    /\ notices = <<>>
    /\ widgets = {}
    /\ status_text = ""
    /\ pdf_buffer = <<>>

(* An interaction ends the wait and starts the script again from the top: *)
(* nothing of the previous execution is kept but the widgets' values.     *)
Rerun(by) ==
    /\ pc' = "main"
    /\ trigger' = by
    /\ i' = 0
    /\ cv_text' = <<>>
    /\ candidate_name' = <<>>
    /\ candidate_data' = PyNone
    /\ candidates_data' = <<>>
    /\ batch_src' = <<>>
    /\ requests' = <<>>
    /\ response' = Reply(PyNone)
    /\ notices' = <<>>
    /\ widgets' = {}
    /\ status_text' = ""
    /\ pdf_buffer' = <<>>

EnterKey ==
    /\ pc = "idle"
    /\ groq_api_key' = IF groq_api_key = "" THEN ApiKey ELSE ""
    /\ Rerun("none")
    /\ UNCHANGED uploaded_files

UploadFile ==
    /\ pc = "idle"
    /\ "uploader" \in widgets
    /\ Len(uploaded_files) < MaxUploads
    /\ \E f \in Files : uploaded_files' = Append(uploaded_files, f)
    /\ Rerun("none")
    /\ UNCHANGED groq_api_key

ClickAnalyze ==
    /\ pc = "idle"
    /\ "Analyze CVs" \in widgets
    /\ Rerun("Analyze CVs")
    /\ UNCHANGED <<groq_api_key, uploaded_files>>

ClickGenerate ==
    /\ pc = "idle"
    /\ "Generate PDF Report" \in widgets
    /\ Rerun("Generate PDF Report")
    /\ UNCHANGED <<groq_api_key, uploaded_files>>

(* lines 199-241 and 323-328: up to the start of the loop *)
MainStart ==
    /\ pc = "main"
    /\ IF groq_api_key = ""
       THEN /\ widgets' = {"GROQ API Key"}
            /\ notices' = <<"Please enter your GROQ API key">>
            /\ pc' = "idle"
            /\ UNCHANGED <<i, candidates_data>>
       ELSE IF uploaded_files = <<>>
       THEN /\ widgets' = {"GROQ API Key", "uploader"}
            /\ notices' = <<"Please upload CV files">>
            /\ pc' = "idle"
            /\ UNCHANGED <<i, candidates_data>>
       ELSE /\ widgets' = {"GROQ API Key", "uploader", "Analyze CVs"}
            /\ notices' = <<"file(s) uploaded successfully">>
            /\ IF st_button("Analyze CVs")
               THEN /\ candidates_data' = <<>>
                    /\ i' = 1
                    /\ pc' = "loop"
               ELSE /\ pc' = "idle"
                    /\ UNCHANGED <<i, candidates_data>>
    /\ UNCHANGED <<groq_api_key, uploaded_files, trigger, cv_text,
                   candidate_name, candidate_data, batch_src, requests,
                   response, status_text, pdf_buffer>>

(* lines 243-251 and 258: the next file is read; an empty text skips it *)
Extract ==
    /\ pc = "loop"
    /\ i <= Len(uploaded_files)
    /\ LET e == extract_text_from_pdf(uploaded_files[i])
       IN /\ status_text' = "Processing"
          /\ cv_text' = e.text
          /\ notices' = notices \o e.notice
          /\ IF Truthy(e.text)
             THEN /\ candidate_name' = NameHint(uploaded_files[i].name)
                  /\ pc' = "analyze"
                  /\ i' = i
             ELSE /\ pc' = "loop"
                  /\ i' = i + 1
                  /\ UNCHANGED candidate_name
    /\ UNCHANGED <<groq_api_key, uploaded_files, trigger, candidate_data,
                   candidates_data, batch_src, requests, response, widgets,
                   pdf_buffer>>

(* lines 255 and 258 *)
AppendRecord ==
    /\ pc = "analyzed"
    /\ candidates_data' = Append(candidates_data, candidate_data)
    /\ batch_src' = Append(batch_src, i)
    /\ i' = i + 1
    /\ pc' = "loop"
    /\ UNCHANGED <<groq_api_key, uploaded_files, trigger, cv_text,
                   candidate_name, candidate_data, requests, response,
                   notices, widgets, status_text, pdf_buffer>>

(* lines 267-303 call candidate.get on every record *)
Displayable(batch) == \A k \in 1..Len(batch) : batch[k].type = "dict"

(* results shown without the test for an empty Batch *)
HasRecords_always(batch) == TRUE

(* bool(candidates_data) *)
HasRecords(batch) == batch # <<>>

(* lines 260-321: the loop is over *)
Complete ==
    /\ pc = "loop"
    /\ i > Len(uploaded_files)
    /\ status_text' = "Analysis complete!"
    /\ pc' = "idle"
    /\ IF HasRecords(candidates_data)
       THEN IF Displayable(candidates_data)
            THEN IF st_button("Generate PDF Report")
                 THEN /\ pdf_buffer' = create_pdf_report(candidates_data)
                      /\ widgets' = widgets \cup {"results", "Generate PDF Report",
                                                 "Download PDF Report"}
                      /\ notices' = notices \o <<"PDF report generated successfully!">>
                 ELSE /\ widgets' = widgets \cup {"results", "Generate PDF Report"}
                      /\ UNCHANGED <<pdf_buffer, notices>>
            ELSE /\ notices' = notices \o <<"Traceback">>
                 /\ UNCHANGED <<pdf_buffer, widgets>>
       ELSE /\ notices' = notices \o <<"No data was extracted from the uploaded files">>
            /\ UNCHANGED <<pdf_buffer, widgets>>
    /\ UNCHANGED <<groq_api_key, uploaded_files, trigger, i, cv_text,
                   candidate_name, candidate_data, candidates_data,
                   batch_src, requests, response>>

Script == MainStart \/ Extract \/ AnalyzeCall \/ AppendRecord \/ Complete

Next ==
    \/ EnterKey
    \/ UploadFile
    \/ ClickAnalyze
    \/ ClickGenerate
    \/ MainStart
    \/ Extract
    \/ AnalyzeCall
    \/ AppendRecord
    \/ Complete

Spec == Init /\ [][Next]_vars

(* the script, once started, runs on: nothing in it waits for the user *)
FairSpec == Spec /\ WF_vars(Script)

----------------------------------------------------------------------------
(* The report builder on its own *)

ReportRecords ==
    { PyDict(ModelRecord),
      create_fallback_analysis(<<"a","@","b",".","c","d">>, <<"A","n","n">>),
      PyDict(PartialRecord),
      PyDict([email |-> <<"j","@","e",".","i","o">>]) }

RECURSIVE BatchesUpTo(_)
BatchesUpTo(n) ==
    IF n = 0 THEN {<<>>}
    ELSE LET P == BatchesUpTo(n - 1)
         IN P \cup {Append(b, r) : b \in P, r \in ReportRecords}

InitReport ==
    /\ groq_api_key = ApiKey
    /\ uploaded_files = <<>>
    /\ pc = "report"
    /\ trigger = "Generate PDF Report"
    /\ i = 0
    /\ cv_text = <<>>
    /\ candidate_name = <<>>
    /\ candidate_data = PyNone
    /\ candidates_data \in BatchesUpTo(MaxBatch)
    /\ batch_src = <<>>
    /\ requests = <<>>
    /\ response = Reply(PyNone)
    /\ notices = <<>>
    /\ widgets = {}
    /\ status_text = ""
    /\ pdf_buffer = <<>>

BuildReport ==
    /\ pc = "report"
    /\ pdf_buffer' = create_pdf_report(candidates_data)
    /\ pc' = "reported"
    /\ UNCHANGED <<groq_api_key, uploaded_files, trigger, i, cv_text,
                   candidate_name, candidate_data, candidates_data,
                   batch_src, requests, response, notices, widgets,
                   status_text>>

NextReport == BuildReport

SpecReport == InitReport /\ [][NextReport]_vars

----------------------------------------------------------------------------
(* What the claims call email-shaped and phone-shaped substrings *)

AtSigns(t) == {a \in 1..Len(t) : t[a] = "@"}
Dots(t) == {d \in 1..Len(t) : t[d] = "."}

(* t[s..e] is local@domain.tld standing between word boundaries *)
IsEmailShaped(t, s, e) ==
    /\ 1 <= s /\ e <= Len(t)
    /\ WordBoundary(t, s) /\ WordBoundary(t, e + 1)
    /\ \E a \in AtSigns(t), d \in Dots(t) :
          /\ s < a /\ a + 1 < d /\ d + TldMin <= e
          /\ \A j \in s..(a - 1) : t[j] \in LocalClass
          /\ \A j \in (a + 1)..(d - 1) : t[j] \in DomainClass
          /\ \A j \in (d + 1)..e : t[j] \in TldClass

(* t[s..e] is an optional "+", an optional digit 1-9 and 7 to 15 digits *)
IsPhoneShaped(t, s, e) ==
    /\ 1 <= s /\ e <= Len(t)
    /\ \E plus \in {0, 1}, lead \in {0, 1} :
          /\ plus = 1 => t[s] = "+"
          /\ lead = 1 => s + plus <= e /\ t[s + plus] \in LeadClass
          /\ e - (s + plus + lead) + 1 \in PhoneMin..PhoneMax
          /\ \A j \in (s + plus + lead)..e : t[j] \in Digits

EmailStarts(t) == {s \in 1..Len(t) : \E e \in s..Len(t) : IsEmailShaped(t, s, e)}
PhoneStarts(t) == {s \in 1..Len(t) : \E e \in s..Len(t) : IsPhoneShaped(t, s, e)}

(* v is an email-shaped substring of t that starts where the first one starts *)
IsFirstEmail(t, v) ==
    /\ EmailStarts(t) # {}
    /\ LET s == Min(EmailStarts(t))
       IN \E e \in s..Len(t) : IsEmailShaped(t, s, e) /\ v = SubSeq(t, s, e)

IsFirstPhone(t, v) ==
    /\ PhoneStarts(t) # {}
    /\ LET s == Min(PhoneStarts(t))
       IN \E e \in s..Len(t) : IsPhoneShaped(t, s, e) /\ v = SubSeq(t, s, e)

(* the call failed: the service could not be reached or refused *)
CallFailed == pc = "analyzed" /\ response.raises

(* the fallback extractor produced the record *)
FellBack == pc = "analyzed" /\ notices # <<>>

----------------------------------------------------------------------------
(* Properties of an analysis run *)

RunComplete == status_text = "Analysis complete!"

(* the uploads that have a page with text *)
NonEmptyDocs ==
    {k \in 1..Len(uploaded_files) :
        /\ uploaded_files[k].readable
        /\ \E p \in 1..Len(uploaded_files[k].pages) :
              uploaded_files[k].pages[p] # <<>>}

Increasing(s) == \A k \in 1..(Len(s) - 1) : s[k] < s[k + 1]

IsPrefix(s, t) == Len(s) <= Len(t) /\ SubSeq(t, 1, Len(s)) = s

(* C1: after a run the Batch holds one record for each upload that gave   *)
(* text, and for no other, in the order of the uploads; record k was made *)
(* from the request for that upload.                                      *)
C1_BatchIsNonEmptyUploads ==
    RunComplete =>
        /\ Len(candidates_data) = Cardinality(NonEmptyDocs)
        /\ Len(batch_src) = Len(candidates_data)
        /\ Increasing(batch_src)
        /\ Range(batch_src) = NonEmptyDocs
        /\ Len(requests) = Len(batch_src)
        /\ \A k \in 1..Len(batch_src) :
              requests[k].name = NameHint(uploaded_files[batch_src[k]].name)

C1_Witness ==
    /\ RunComplete
    /\ Len(uploaded_files) = 3
    /\ ~uploaded_files[2].readable
    /\ batch_src = <<1, 3>>
    /\ Len(candidates_data) = 2

KeepsRecords ==
    pc \in {"loop", "analyze", "analyzed"}
        => IsPrefix(candidates_data, candidates_data')

(* C3: a run that has started its loop reaches "Analysis complete!"       *)
(* whatever happens to each document; records appended are kept, and at   *)
(* the end every upload has been through the loop.                        *)
C3_RunAlwaysCompletes ==
    /\ [](pc = "loop" => <>RunComplete)
    /\ [][KeepsRecords]_vars
    /\ [](RunComplete => /\ i = Len(uploaded_files) + 1
                         /\ Range(batch_src) = NonEmptyDocs)

C3_Witness ==
    /\ RunComplete
    /\ Len(uploaded_files) = 3
    /\ ~uploaded_files[1].readable
    /\ batch_src = <<2, 3>>
    /\ candidates_data[1].type # "dict"
    /\ candidates_data[2].type = "dict"
    /\ \E k \in 1..Len(notices) : notices[k] = "Error extracting text"

(* C4: a click on "Generate PDF Report" is answered with the report and   *)
(* the download of it.                                                    *)
C4_ReportOnRequest ==
    (pc = "idle" /\ trigger = "Generate PDF Report")
        => /\ pdf_buffer # <<>>
           /\ "Download PDF Report" \in widgets

(* C5: a run that ends with an empty Batch shows the error notice and     *)
(* offers neither results nor the report, and no report is built; with no *)
(* upload there is no Analyze button, no report button and no record.     *)
C5_EmptyBatch ==
    /\ (RunComplete /\ candidates_data = <<>>)
          => /\ \E k \in 1..Len(notices) :
                   notices[k] = "No data was extracted from the uploaded files"
             /\ widgets \cap {"results", "Generate PDF Report",
                              "Download PDF Report"} = {}
             /\ pdf_buffer = <<>>
    /\ uploaded_files = <<>>
          => /\ widgets \cap {"Analyze CVs", "Generate PDF Report",
                              "Download PDF Report"} = {}
             /\ candidates_data = <<>>
             /\ requests = <<>>
             /\ pdf_buffer = <<>>

C5_Witness ==
    /\ pc = "idle"
    /\ RunComplete
    /\ Len(uploaded_files) >= 2
    /\ candidates_data = <<>>

(* C9: every record of the Batch is a mapping with the eleven fields *)
C9_BatchOfCandidateRecords ==
    \A k \in 1..Len(candidates_data) :
        /\ candidates_data[k].type = "dict"
        /\ DOMAIN candidates_data[k].val = Fields

(* C10: one request for each upload that gave text and none for the       *)
(* others, also when the request failed; a request is sent only when the  *)
(* record of every earlier request is in the Batch.                       *)
C10_OneRequestPerDocument ==
    /\ Len(requests) = Len(candidates_data) + (IF pc = "analyzed" THEN 1 ELSE 0)
    /\ pc = "analyze" => Len(candidates_data) = Len(batch_src)
    /\ RunComplete =>
          /\ Len(requests) = Cardinality(NonEmptyDocs)
          /\ \A k \in 1..Len(requests) :
                /\ k <= Len(batch_src)
                /\ requests[k] =
                      Prompt(Concat(uploaded_files[batch_src[k]].pages),
                             NameHint(uploaded_files[batch_src[k]].name))

C10_Witness ==
    /\ RunComplete
    /\ Len(uploaded_files) = 3
    /\ Len(requests) = 2
    /\ \E k \in 1..Len(notices) : notices[k] = "Error analyzing CV"
    /\ \E k \in 1..Len(notices) : notices[k] = "Error parsing JSON response"

----------------------------------------------------------------------------
(* Properties of the analyzer and of the fallback extractor *)

(* the reply is not the expected structure: no text, not JSON, or JSON    *)
(* that is not a mapping                                                  *)
Malformed(resp) ==
    /\ ~resp.raises
    /\ \/ resp.content.type # "str"
       \/ ~resp.content.json
       \/ resp.content.val.type # "dict"

(* C2: when the call fails or the reply is malformed the record is the    *)
(* fallback extractor's record for the whole text and the name hint.      *)
C2_FallbackEquivalence ==
    (pc = "analyzed" /\ (response.raises \/ Malformed(response)))
        => /\ candidate_data.type = "dict"
           /\ candidate_data = create_fallback_analysis(cv_text, candidate_name)

(* What the two handlers do give: when the call raised, the reply had no  *)
(* content or the content was not JSON, the record is the fallback record *)
(* of the whole text, not of the excerpt sent in the prompt.              *)
FallbackOnException ==
    (pc = "analyzed" /\ (response.raises \/ response.content.type # "str"
                                        \/ ~response.content.json))
        => candidate_data = create_fallback_analysis(cv_text, candidate_name)

(* the record the extractor gives for an empty text and an empty hint *)
Reference == create_fallback_analysis(<<>>, <<>>).val

(* C7 as stated: after a failed call the email is the first email-shaped  *)
(* substring and every field other than email and phone has a fixed value *)
(* that does not depend on the text or on the name hint.                  *)
C7_OnlyEmailAndPhoneVary ==
    CallFailed =>
        /\ EmailStarts(cv_text) # {}
              => IsFirstEmail(cv_text, candidate_data.val.email)
        /\ \A f \in Fields \ {"email", "phone"} :
              candidate_data.val[f] = Reference[f]

(* C7 amended: name is the name hint, email and phone are the first       *)
(* shaped substrings or "Not found", the other eight fields are fixed.    *)
C7_FallbackFields ==
    CallFailed =>
        /\ candidate_data.val.name = candidate_name
        /\ IF EmailStarts(cv_text) # {}
           THEN IsFirstEmail(cv_text, candidate_data.val.email)
           ELSE candidate_data.val.email = NotFound
        /\ IF PhoneStarts(cv_text) # {}
           THEN IsFirstPhone(cv_text, candidate_data.val.phone)
           ELSE candidate_data.val.phone = NotFound
        /\ \A f \in Fields \ {"name", "email", "phone"} :
              candidate_data.val[f] = Reference[f]

C7_Witness ==
    /\ CallFailed
    /\ Cardinality(EmailStarts(cv_text)) >= 2
    /\ Len(cv_text) > PromptLimit
    /\ candidate_data.val.email = <<"a","@","b",".","c","d">>
    /\ candidate_data.val.name = <<"J"," ","D","o","e">>

(* C8: the fallback extractor returns, for every text and hint, a mapping *)
(* with all eleven fields; email and phone are never empty and are "Not   *)
(* found" when the text has no substring of the shape.                    *)
C8_FallbackTotal ==
    FellBack =>
        /\ candidate_data.type = "dict"
        /\ DOMAIN candidate_data.val = Fields
        /\ candidate_data.val.email # <<>>
        /\ candidate_data.val.phone # <<>>
        /\ EmailStarts(cv_text) = {} => candidate_data.val.email = NotFound
        /\ PhoneStarts(cv_text) = {} => candidate_data.val.phone = NotFound
        /\ candidate_data.val.key_skills # <<>>
        /\ candidate_data.val.previous_companies # <<>>

C8_Witness ==
    /\ FellBack
    /\ cv_text = <<>>
    /\ candidate_data.val.email = NotFound
    /\ candidate_data.val.phone = NotFound

----------------------------------------------------------------------------
(* Properties of the report *)

Headers(story) == SelectSeq(story, LAMBDA x : x.kind = "header")
Tables(story) == SelectSeq(story, LAMBDA x : x.kind = "table")
Summaries(story) == SelectSeq(story, LAMBDA x : x.kind = "summary")

HasName(c) == "name" \in DOMAIN c.val

(* C6: the report has one section for each record of the Batch, in the    *)
(* order of the Batch; section k is numbered k, shows the name of record  *)
(* k and is filled from record k.                                         *)
C6_SectionPerRecord ==
    pc = "reported" =>
        /\ Len(Headers(pdf_buffer)) = Len(candidates_data)
        /\ Len(Tables(pdf_buffer)) = Len(candidates_data)
        /\ Len(pdf_buffer) = 4 + 5 * Len(candidates_data)
        /\ \A k \in 1..Len(candidates_data) :
              /\ pdf_buffer[5 * k].kind = "header"
              /\ pdf_buffer[5 * k].pos = k
              /\ pdf_buffer[5 * k].name =
                    (IF HasName(candidates_data[k])
                     THEN candidates_data[k].val.name ELSE Unknown)
              /\ pdf_buffer[5 * k + 1].kind = "table"
              /\ "email" \in DOMAIN candidates_data[k].val
                    => pdf_buffer[5 * k + 1].details.Email
                          = candidates_data[k].val.email

C6_Witness ==
    /\ pc = "reported"
    /\ Len(candidates_data) = 3
    /\ candidates_data[1] = candidates_data[3]
    /\ HasName(candidates_data[1]) /\ HasName(candidates_data[2])
    /\ candidates_data[1].val.name = <<"J","o","e">>
    /\ candidates_data[2].val.name = <<"A","n","n">>
    /\ Len(Headers(pdf_buffer)) = 3

====
